---- MODULE Spec2Model ----
(***************************************************************************)
(* SommelierLab conversational runtime.                                    *)
(*                                                                         *)
(* Two programs of the repository are modelled:                            *)
(*   - the WebSocket protocol server (src/src/server.ts): an in-process    *)
(*     session table and one async handler per inbound message;            *)
(*   - the HTTP runtime (src/unnamed/part_000, third file, lines 100-457): *)
(*     /session/init, /chat, /debug/session/:id and /health over a TTL     *)
(*     store.                                                              *)
(*                                                                         *)
(* A JavaScript string is a sequence of pieces (characters, or one piece   *)
(* for a literal tail), so that trim, startsWith, toLowerCase and the      *)
(* truthiness of "" are computed and not assumed.                          *)
(***************************************************************************)
EXTENDS Integers, Sequences, FiniteSets, TLC

(* ------------------------------ bounds -------------------------------- *)

\* inbound WebSocket messages received on the connection
MaxMsgs == 3
\* inbound WebSocket messages received, two sessions on the connection
MaxPairMsgs == 4

\* steps of the wall clock
MaxTicks == 1
\* HTTP requests received, concurrent runs
MaxReqs == 3
\* HTTP requests received, debug and health routes included
MaxOps == 3

\* HTTP requests that come one at a time before requests overlap
MaxSolo == 16
\* HTTP requests received, a full history and then overlapping requests
MaxRace == 19

\* HTTP requests received, one session driven turn after turn
MaxTurns == 33

(* ------------------------- program constants -------------------------- *)

\* process.env.SESSION_TTL_SECONDS ?? 1800
SESSION_TTL_SECONDS == 1800
\* .slice(-30)
HISTORY_WINDOW == 30

(* --------------------------- JavaScript values ------------------------ *)

Undefined == [typ |-> "undefined", num |-> 0, str |-> <<>>]
JNum(n) == [typ |-> "number", num |-> n, str |-> <<>>]
JStr(s) == [typ |-> "string", num |-> 0, str |-> s]

\* !v for a value that is undefined, a number or a string
Falsy(v) ==
  \/ v.typ = "undefined"
  \/ v.typ = "number" /\ v.num = 0
  \/ v.typ = "string" /\ v.str = <<>>

\* String.prototype.startsWith
StartsWith(s, p) == Len(s) >= Len(p) /\ SubSeq(s, 1, Len(p)) = p

\* String.prototype.trim, white space being the piece " "
RECURSIVE TrimStart(_)
TrimStart(s) ==
  IF s # <<>> /\ Head(s) = " " THEN TrimStart(Tail(s)) ELSE s
RECURSIVE TrimEnd(_)
TrimEnd(s) ==
  IF s # <<>> /\ s[Len(s)] = " " THEN TrimEnd(SubSeq(s, 1, Len(s) - 1)) ELSE s
Trim(s) == TrimEnd(TrimStart(s))

\* String.prototype.toLowerCase over the letters in use
LowerOf(c) ==
  CASE c = "E" -> "e"
    [] c = "N" -> "n"
    [] c = "S" -> "s"
    [] OTHER -> c
toLowerCase(s) == [i \in 1..Len(s) |-> LowerOf(s[i])]

\* Array.prototype.slice(-n)
SliceLast(a, n) ==
  IF Len(a) <= n THEN a ELSE SubSeq(a, Len(a) - n + 1, Len(a))

(* ------------------------------ strings ------------------------------- *)

PING == <<"p", "i", "n", "g">>
SESSION_START == <<"s", "e", "s", "s", "i", "o", "n", ".", "s", "t", "a", "r", "t">>
USER_MESSAGE == <<"u", "s", "e", "r", ".", "m", "e", "s", "s", "a", "g", "e">>
BYE == <<"b", "y", "e">>
UNKNOWN == <<"u", "n", "k", "n", "o", "w", "n">>
S1 == <<"s", "1">>
S2 == <<"s", "2">>
ES == <<"e", "s">>
EN == <<"e", "n">>
W1 == <<"w", "1">>
W2 == <<"w", "2">>
HI == <<"h", "i">>
BLANK == <<" ">>
EMPTY == <<>>

SessionIds == {S1, S2}

(* ------------------------- WebSocket: inbound ------------------------- *)

\* A decoded JSON value as validateClientMsg probes it: its kind and, for
\* an object, the fields v, type, sessionId, lang, vino_id, text (the field
\* context is cast and never read again, server.ts:131).
Obj(v, type, sessionId, lang, vino_id, text) ==
  [kind |-> "object", v |-> v, type |-> type, sessionId |-> sessionId,
   lang |-> lang, vino_id |-> vino_id, text |-> text]
NonObj(kind) ==
  [kind |-> kind, v |-> Undefined, type |-> Undefined, sessionId |-> Undefined,
   lang |-> Undefined, vino_id |-> Undefined, text |-> Undefined]

PingP(sid) == Obj(JNum(1), JStr(PING), JStr(sid), Undefined, Undefined, Undefined)
StartP(sid, lang, vino) ==
  Obj(JNum(1), JStr(SESSION_START), JStr(sid), JStr(lang), JStr(vino), Undefined)
UserP(sid, text) ==
  Obj(JNum(1), JStr(USER_MESSAGE), JStr(sid), Undefined, Undefined, JStr(text))

\* a frame: text that JSON.parse accepts (with its value) or rejects
Frame(p) == [parses |-> TRUE, value |-> p]
Garbage == [parses |-> FALSE, value |-> NonObj("null")]

UserTexts == {HI, EMPTY}

\* the first session is driven with every kind of message, the second one
\* with a start and a turn
WellFormedPayloads ==
  {PingP(S1), StartP(S1, ES, W1), StartP(S1, EN, W2), StartP(S1, EMPTY, W1),
   StartP(S1, ES, EMPTY), StartP(S2, EN, W2), UserP(S2, HI)}
    \cup {UserP(S1, t) : t \in UserTexts}

\* one deviation from a well-formed message each
BrokenPayloads ==
  {NonObj("array"), NonObj("number"),
   [PingP(S1) EXCEPT !.v = Undefined],
   [PingP(S1) EXCEPT !.v = JNum(2)],
   [PingP(S1) EXCEPT !.v = JStr(<<"1">>)],
   [UserP(S1, HI) EXCEPT !.type = Undefined],
   [UserP(S1, HI) EXCEPT !.type = JStr(BYE)],
   [PingP(S1) EXCEPT !.sessionId = Undefined],
   [StartP(S1, ES, W1) EXCEPT !.lang = Undefined],
   [StartP(S1, ES, W1) EXCEPT !.vino_id = JNum(7)],
   [UserP(S1, HI) EXCEPT !.text = Undefined]}

Frames == {Garbage} \cup {Frame(p) : p \in WellFormedPayloads \cup BrokenPayloads}

safeJsonParse(raw) == IF raw.parses THEN raw.value ELSE NonObj("null")

isObject(v) == v.kind = "object"

NoMsg == [valid |-> FALSE]

\* validateClientMsg without the test of the protocol version
validateClientMsg_AnyVersion(payload) ==
  IF ~isObject(payload) THEN NoMsg
  ELSE IF \/ payload.type.typ # "string"
          \/ payload.sessionId.typ # "string" THEN NoMsg
  ELSE IF payload.type.str = PING
    THEN [valid |-> TRUE, type |-> PING, sessionId |-> payload.sessionId.str]
  ELSE IF payload.type.str = SESSION_START
    THEN IF payload.lang.typ # "string" \/ payload.vino_id.typ # "string"
           THEN NoMsg
           ELSE [valid |-> TRUE, type |-> SESSION_START,
                 sessionId |-> payload.sessionId.str,
                 lang |-> payload.lang.str, vino_id |-> payload.vino_id.str]
  ELSE IF payload.type.str = USER_MESSAGE
    THEN IF payload.text.typ # "string"
           THEN NoMsg
           ELSE [valid |-> TRUE, type |-> USER_MESSAGE,
                 sessionId |-> payload.sessionId.str, text |-> payload.text.str]
  ELSE NoMsg

validateClientMsg(payload) ==
  IF ~isObject(payload) THEN NoMsg
  ELSE IF \/ payload.v # JNum(1)
          \/ payload.type.typ # "string"
          \/ payload.sessionId.typ # "string" THEN NoMsg
  ELSE IF payload.type.str = PING
    THEN [valid |-> TRUE, type |-> PING, sessionId |-> payload.sessionId.str]
  ELSE IF payload.type.str = SESSION_START
    THEN IF payload.lang.typ # "string" \/ payload.vino_id.typ # "string"
           THEN NoMsg
           ELSE [valid |-> TRUE, type |-> SESSION_START,
                 sessionId |-> payload.sessionId.str,
                 lang |-> payload.lang.str, vino_id |-> payload.vino_id.str]
  ELSE IF payload.type.str = USER_MESSAGE
    THEN IF payload.text.typ # "string"
           THEN NoMsg
           ELSE [valid |-> TRUE, type |-> USER_MESSAGE,
                 sessionId |-> payload.sessionId.str, text |-> payload.text.str]
  ELSE NoMsg

fallbackSessionId(payload) ==
  IF isObject(payload) /\ payload.sessionId.typ = "string"
    THEN payload.sessionId.str
    ELSE UNKNOWN

\* async stub: the text the returned promise resolves to
generateSommelierReply(lang, vino_id, userText) ==
  IF StartsWith(lang, ES)
    THEN <<"Para ">> \o vino_id \o <<": marida muy bien">>
    ELSE <<"For ">> \o vino_id \o <<": pairs well">>

(* ------------------------------- state -------------------------------- *)

VARIABLES
  clock,       \* Date.now(), in seconds
  ticks,       \* steps the clock has made
  sessions,    \* the Map sessions: session id -> SessionState
  wsIn,        \* frames received so far, in order
  wsTrace,     \* what the handlers did, in order: messages sent, generation calls
  wsPending,   \* handlers suspended at await generateSommelierReply
  redis,       \* whether REDIS_URL is set (the client exists)
  DEBUG_TOKEN, \* process.env.DEBUG_TOKEN ?? "", read once at startup
  store,       \* the keys of the store: key -> serialized value and seconds to live
  httpReqs,    \* HTTP requests received so far, in order: route and body
  httpResp,    \* the response to each request, NoResp until it is sent
  httpCalls,   \* bodies posted to N8N_CHAT_URL, in order
  initPending, \* /session/init handlers suspended at await httpPostJson
  chatPending  \* /chat handlers suspended at await httpPostJson

timeVars == <<clock, ticks>>
wsVars == <<sessions, wsIn, wsTrace, wsPending>>
httpVars == <<redis, DEBUG_TOKEN, store, httpReqs, httpResp, httpCalls, initPending, chatPending>>
vars == <<clock, ticks, sessions, wsIn, wsTrace, wsPending,
          redis, DEBUG_TOKEN, store, httpReqs, httpResp, httpCalls, initPending,
          chatPending>>

\* send(): the message as serialized, stamped with Date.now(); cause is the
\* index in wsIn of the inbound message whose handler sent it
Sent(cause, msg) ==
  [ev |-> "send", cause |-> cause, ts |-> clock, msg |-> msg]
ErrorMsg(sessionId, code) ==
  [v |-> 1, type |-> "error", sessionId |-> sessionId, code |-> code]
sendError(cause, sessionId, code) == Sent(cause, ErrorMsg(sessionId, code))
Called(cause, lang, vino_id, userText) ==
  [ev |-> "call", cause |-> cause, lang |-> lang, vino_id |-> vino_id,
   userText |-> userText]

CAPABILITIES == [text |-> TRUE, audio |-> FALSE, streaming |-> TRUE]

upsertSession(sessionId) ==
  IF sessionId \in DOMAIN sessions
    THEN [sessions EXCEPT ![sessionId].lastSeenAt = clock]
    ELSE [k \in DOMAIN sessions \cup {sessionId} |->
            IF k = sessionId
              THEN [sessionId |-> sessionId, lang |-> Undefined,
                    vino_id |-> Undefined, createdAt |-> clock,
                    lastSeenAt |-> clock]
              ELSE sessions[k]]

WsInit ==
  /\ sessions = <<>>
  /\ wsIn = <<>>
  /\ wsTrace = <<>>
  /\ wsPending = {}

\* the invalid message answered with a code outside the protocol's set
WsInvalid_InternalError(n, payload) ==
  /\ wsTrace' = Append(wsTrace, sendError(n, fallbackSessionId(payload), "INTERNAL_ERROR"))
  /\ UNCHANGED <<sessions, wsPending>>

\* the invalid message handled after the upsert instead of before it
WsInvalid_Upsert(n, payload) ==
  /\ sessions' = upsertSession(fallbackSessionId(payload))
  /\ wsTrace' = Append(wsTrace, sendError(n, fallbackSessionId(payload), "INVALID_MESSAGE"))
  /\ UNCHANGED wsPending

\* ws.on("message"), msg invalid
WsInvalid(n, payload) ==
  /\ wsTrace' = Append(wsTrace, sendError(n, fallbackSessionId(payload), "INVALID_MESSAGE"))
  /\ UNCHANGED <<sessions, wsPending>>

\* ws.on("message"), ping branch
WsPing(n, msg) ==
  /\ sessions' = upsertSession(msg.sessionId)
  /\ wsTrace' = Append(wsTrace,
        Sent(n, [v |-> 1, type |-> "pong", sessionId |-> msg.sessionId]))
  /\ UNCHANGED wsPending

\* session.start that binds language and wine only the first time
WsSessionStart_KeepFirst(n, msg) ==
  LET table == upsertSession(msg.sessionId)
      fresh == Falsy(table[msg.sessionId].lang)
  IN /\ sessions' = [table EXCEPT
           ![msg.sessionId].lang = IF fresh THEN JStr(msg.lang) ELSE @,
           ![msg.sessionId].vino_id = IF fresh THEN JStr(msg.vino_id) ELSE @]
     /\ wsTrace' = Append(wsTrace,
           Sent(n, [v |-> 1, type |-> "session.ready", sessionId |-> msg.sessionId,
                    capabilities |-> CAPABILITIES]))
     /\ UNCHANGED wsPending

\* ws.on("message"), session.start branch
WsSessionStart(n, msg) ==
  /\ sessions' = [upsertSession(msg.sessionId) EXCEPT
        ![msg.sessionId].lang = JStr(msg.lang),
        ![msg.sessionId].vino_id = JStr(msg.vino_id)]
  /\ wsTrace' = Append(wsTrace,
        Sent(n, [v |-> 1, type |-> "session.ready", sessionId |-> msg.sessionId,
                 capabilities |-> CAPABILITIES]))
  /\ UNCHANGED wsPending

\* the user.message branch with the generation call made before anything is sent
WsUserMessage_CallFirst(n, msg) ==
  LET table == upsertSession(msg.sessionId)
      session == table[msg.sessionId]
  IN /\ sessions' = table
     /\ IF Falsy(session.lang) \/ Falsy(session.vino_id)
          THEN /\ wsTrace' = Append(wsTrace,
                     sendError(n, msg.sessionId, "SESSION_NOT_READY"))
               /\ UNCHANGED wsPending
          ELSE /\ wsTrace' = wsTrace \o
                     << Called(n, session.lang.str, session.vino_id.str, msg.text),
                        Sent(n, [v |-> 1, type |-> "assistant.thinking",
                                 sessionId |-> msg.sessionId]),
                        Sent(n, [v |-> 1, type |-> "assistant.chunk",
                                 sessionId |-> msg.sessionId,
                                 delta |-> <<"Analizando... ">>]) >>
               /\ wsPending' = wsPending \cup
                     {[cause |-> n, sessionId |-> msg.sessionId,
                       text |-> generateSommelierReply(session.lang.str,
                                   session.vino_id.str, msg.text)]}

\* ws.on("message"), user.message branch up to the await
WsUserMessage(n, msg) ==
  LET table == upsertSession(msg.sessionId)
      session == table[msg.sessionId]
  IN /\ sessions' = table
     /\ IF Falsy(session.lang) \/ Falsy(session.vino_id)
          THEN /\ wsTrace' = Append(wsTrace,
                     sendError(n, msg.sessionId, "SESSION_NOT_READY"))
               /\ UNCHANGED wsPending
          ELSE /\ wsTrace' = wsTrace \o
                     << Sent(n, [v |-> 1, type |-> "assistant.thinking",
                                 sessionId |-> msg.sessionId]),
                        Sent(n, [v |-> 1, type |-> "assistant.chunk",
                                 sessionId |-> msg.sessionId,
                                 delta |-> <<"Analizando... ">>]),
                        Called(n, session.lang.str, session.vino_id.str, msg.text) >>
               /\ wsPending' = wsPending \cup
                     {[cause |-> n, sessionId |-> msg.sessionId,
                       text |-> generateSommelierReply(session.lang.str,
                                   session.vino_id.str, msg.text)]}

\* ws.on("message"): one frame arrives and its handler runs to its first
\* await or to its end. Nothing in the try block throws (the sends are of
\* plain objects, the stub always resolves), so its catch never runs.
WsHandle(raw) ==
  /\ wsIn' = Append(wsIn, raw)
  /\ LET n == Len(wsIn) + 1
         payload == safeJsonParse(raw)
         msg == validateClientMsg(payload)
     IN IF ~msg.valid THEN WsInvalid(n, payload)
        ELSE IF msg.type = PING THEN WsPing(n, msg)
        ELSE IF msg.type = SESSION_START THEN WsSessionStart(n, msg)
        ELSE WsUserMessage(n, msg)
  /\ UNCHANGED <<timeVars, httpVars>>

\* the connection of the first specification takes MaxMsgs frames
WsOnMessage(raw) == Len(wsIn) < MaxMsgs /\ WsHandle(raw)

\* the handler continuing with the turn that was started last on the
\* connection instead of its own
WsResume_LatestTurn(h) ==
  LET last == CHOOSE g \in wsPending : \A k \in wsPending : k.cause <= g.cause
  IN /\ h \in wsPending
     /\ wsPending' = wsPending \ {h}
     /\ wsTrace' = Append(wsTrace,
           Sent(h.cause, [v |-> 1, type |-> "assistant.message",
                          sessionId |-> last.sessionId, text |-> last.text]))
     /\ UNCHANGED <<sessions, wsIn, timeVars, httpVars>>

\* the promise of generateSommelierReply settles and the handler continues
WsResume(h) ==
  /\ h \in wsPending
  /\ wsPending' = wsPending \ {h}
  /\ wsTrace' = Append(wsTrace,
        Sent(h.cause, [v |-> 1, type |-> "assistant.message",
                       sessionId |-> h.sessionId, text |-> h.text]))
  /\ UNCHANGED <<sessions, wsIn, timeVars, httpVars>>

(* ------------------------------- HTTP --------------------------------- *)

Y20 == <<"2", "0">>
OK_TEXT == <<"o", "k">>

\* req.body of /session/init and /chat, field by field
Body(session_id, vino_id, anyada, lang, tenant_id, userText) ==
  [session_id |-> session_id, vino_id |-> vino_id, anyada |-> anyada,
   lang |-> lang, tenant_id |-> tenant_id, userText |-> userText]
InitB(session_id, vino_id, anyada, lang) ==
  Body(session_id, vino_id, anyada, lang, Undefined, Undefined)
ChatB(session_id, userText) ==
  Body(session_id, Undefined, Undefined, Undefined, Undefined, userText)

InitBodies ==
  {InitB(JStr(S1), JStr(W1), JStr(Y20), Undefined),
   InitB(JStr(<<" ">> \o S1), JStr(W2), JStr(Y20), JStr(<<"E", "N">>)),
   InitB(Undefined, JStr(W1), JStr(Y20), Undefined),
   InitB(JStr(S1), JStr(BLANK), JStr(Y20), Undefined),
   InitB(JStr(S1), JStr(W1), Undefined, Undefined)}

ChatBodies ==
  {ChatB(JStr(S1), JStr(HI)),
   ChatB(JStr(S1 \o <<" ">>), JStr(<<" ", "y", "o", " ">>)),
   ChatB(JStr(S1), JStr(BLANK)),
   ChatB(JStr(S1), JStr(EMPTY)),
   ChatB(JNum(7), JStr(HI))}

\* what the context service answers: a context, a body without one, or an
\* HTTP error status (httpPostJson throws)
CtxReplies == {"context", "no_context", "http_error"}

\* what the chat service answers: an HTTP error status, or a body whose text
\* is missing, empty, blank or padded
ChatReplies ==
  {[http_ok |-> FALSE, text |-> Undefined]}
    \cup {[http_ok |-> TRUE, text |-> t] :
            t \in {Undefined, JStr(EMPTY), JStr(BLANK), JStr(<<" ">> \o OK_TEXT)}}

DigitOf(d) == <<"0", "1", "2", "3", "4", "5", "6", "7", "8", "9">>[d + 1]
RECURSIVE Decimal(_)
Decimal(n) ==
  IF n < 10 THEN <<DigitOf(n)>> ELSE Append(Decimal(n \div 10), DigitOf(n % 10))

\* String(v)
StringOf(v) ==
  IF v.typ = "string" THEN v.str
  ELSE IF v.typ = "number" THEN Decimal(v.num)
  ELSE <<"undefined">>

\* v ?? d
Coalesce(v, d) == IF v.typ = "undefined" THEN d ELSE v

sessionKey(id) == <<"sommelier:session:">> \o id

\* the string returned, or the Error thrown
assertString(name, v) ==
  IF Falsy(v) \/ v.typ # "string" \/ Trim(v.str) = <<>>
    THEN [ok |-> FALSE, value |-> <<>>, error |-> <<name, " missing">>]
    ELSE [ok |-> TRUE, value |-> Trim(v.str), error |-> <<>>]

JSONstringify(state) == [json |-> state]
JSONparse(raw) == raw.json

NoResp == [status |-> 0]
Resp(status, body) == [status |-> status, body |-> body]
\* res.status(400).json({ ok: false, error })
BadRequest(error) == Resp(400, [ok |-> FALSE, error |-> error])

\* redis.set(key, value, "EX", seconds)
redisSet(key, value, seconds) ==
  [k \in DOMAIN store \cup {key} |->
     IF k = key THEN [value |-> value, ttl |-> seconds] ELSE store[k]]

HistoryItem(role, text) == [role |-> role, text |-> text, ts |-> clock]

\* the agent_context the context service builds for a request
AgentContext(q) ==
  [language |-> q.lang, tenant |-> [tenant_id |-> q.tenant_id],
   wine |-> [vino_id |-> q.vino_id, anyada |-> q.anyada]]

HttpInit ==
  /\ store = <<>>
  /\ httpReqs = <<>>
  /\ httpResp = <<>>
  /\ httpCalls = <<>>
  /\ initPending = {}
  /\ chatPending = {}

\* app.post("/session/init") up to await httpPostJson
HttpInitBegin(body) ==
  LET rid == Len(httpReqs) + 1
      session_id == assertString("session_id", body.session_id)
      vino_id == assertString("vino_id", body.vino_id)
      anyada == assertString("anyada", body.anyada)
      lang == toLowerCase(StringOf(Coalesce(body.lang, JStr(ES))))
      tenant_id == StringOf(Coalesce(body.tenant_id, JStr(<<"default">>)))
      thrown ==
        IF ~redis THEN <<"Redis not available">>
        ELSE IF ~session_id.ok THEN session_id.error
        ELSE IF ~vino_id.ok THEN vino_id.error
        ELSE IF ~anyada.ok THEN anyada.error
        ELSE <<>>
  IN /\ httpReqs' = Append(httpReqs, [route |-> "/session/init", body |-> body])
     /\ IF thrown # <<>>
          THEN /\ httpResp' = Append(httpResp, BadRequest(thrown))
               /\ UNCHANGED initPending
          ELSE /\ httpResp' = Append(httpResp, NoResp)
               /\ initPending' = initPending \cup
                    {[rid |-> rid, session_id |-> session_id.value,
                      query |-> [vino_id |-> vino_id.value, anyada |-> anyada.value,
                                 lang |-> lang, tenant_id |-> tenant_id,
                                 session_id |-> session_id.value]]}
     /\ UNCHANGED <<redis, DEBUG_TOKEN, store, httpCalls, chatPending, timeVars, wsVars>>

\* app.post("/session/init") from the answer of the context service on
HttpInitFinish(h, reply) ==
  /\ h \in initPending
  /\ initPending' = initPending \ {h}
  /\ IF reply = "http_error"
       THEN /\ httpResp' = [httpResp EXCEPT ![h.rid] = BadRequest(<<"HTTP error calling n8n">>)]
            /\ UNCHANGED store
     ELSE IF reply = "no_context"
       THEN /\ httpResp' = [httpResp EXCEPT ![h.rid] =
                               BadRequest(<<"n8n context missing agent_context">>)]
            /\ UNCHANGED store
     ELSE LET state == [agent_context |-> AgentContext(h.query), history |-> <<>>,
                        created_at |-> clock, updated_at |-> clock]
          IN /\ store' = redisSet(sessionKey(h.session_id), JSONstringify(state),
                                  SESSION_TTL_SECONDS)
             /\ httpResp' = [httpResp EXCEPT ![h.rid] =
                   Resp(200, [ok |-> TRUE, session_id |-> h.session_id,
                              ttl_seconds |-> SESSION_TTL_SECONDS,
                              language |-> state.agent_context.language,
                              tenant |-> state.agent_context.tenant.tenant_id])]
  /\ UNCHANGED <<redis, DEBUG_TOKEN, httpReqs, httpCalls, chatPending, timeVars, wsVars>>

\* the window cut from the wrong end: .slice(0, 30)
nextHistory_KeepOldest(history, assistantText) ==
  LET all == Append(history, HistoryItem("assistant", assistantText))
  IN SubSeq(all, 1, IF Len(all) <= HISTORY_WINDOW THEN Len(all) ELSE HISTORY_WINDOW)

\* the window one entry short: .slice(-29)
nextHistory_OddWindow(history, assistantText) ==
  SliceLast(Append(history, HistoryItem("assistant", assistantText)),
            HISTORY_WINDOW - 1)

\* [...history, assistant item].slice(-30)
nextHistory(history, assistantText) ==
  SliceLast(Append(history, HistoryItem("assistant", assistantText)), HISTORY_WINDOW)

\* app.post("/chat") up to await httpPostJson
HttpChatBegin(body) ==
  LET rid == Len(httpReqs) + 1
      session_id == assertString("session_id", body.session_id)
      userText == assertString("userText", body.userText)
      thrown ==
        IF ~redis THEN <<"Redis not available">>
        ELSE IF ~session_id.ok THEN session_id.error
        ELSE IF ~userText.ok THEN userText.error
        ELSE <<>>
      key == sessionKey(session_id.value)
  IN /\ httpReqs' = Append(httpReqs, [route |-> "/chat", body |-> body])
     /\ IF thrown # <<>>
          THEN /\ httpResp' = Append(httpResp, BadRequest(thrown))
               /\ UNCHANGED <<httpCalls, chatPending>>
        ELSE IF key \notin DOMAIN store
          THEN /\ httpResp' = Append(httpResp,
                     Resp(404, [ok |-> FALSE, error |-> <<"session not found">>]))
               /\ UNCHANGED <<httpCalls, chatPending>>
        ELSE LET state == JSONparse(store[key].value)
                 history == Append(state.history, HistoryItem("user", userText.value))
             IN /\ httpResp' = Append(httpResp, NoResp)
                /\ httpCalls' = Append(httpCalls,
                      [rid |-> rid, session_id |-> session_id.value,
                       userText |-> userText.value, history |-> history,
                       agent_context |-> state.agent_context])
                /\ chatPending' = chatPending \cup
                      {[rid |-> rid, session_id |-> session_id.value,
                        state |-> state, history |-> history]}
     /\ UNCHANGED <<redis, DEBUG_TOKEN, store, initPending, timeVars, wsVars>>

\* the chat turn that reads the record again when the reply is there and
\* appends its two entries to what is stored then
HttpChatFinish_Append(h, reply) ==
  /\ h \in chatPending
  /\ chatPending' = chatPending \ {h}
  /\ IF ~reply.http_ok \/ Falsy(reply.text)
       THEN /\ httpResp' = [httpResp EXCEPT ![h.rid] = BadRequest(<<"n8n chat failed">>)]
            /\ UNCHANGED store
     ELSE LET assistantText == Trim(reply.text.str)
              key == sessionKey(h.session_id)
              stored == IF key \in DOMAIN store
                          THEN Append(JSONparse(store[key].value).history,
                                      h.history[Len(h.history)])
                          ELSE h.history
              nextState == [h.state EXCEPT
                              !.history = SliceLast(Append(stored,
                                  HistoryItem("assistant", assistantText)), HISTORY_WINDOW),
                              !.updated_at = clock]
          IN /\ store' = redisSet(key, JSONstringify(nextState), SESSION_TTL_SECONDS)
             /\ httpResp' = [httpResp EXCEPT ![h.rid] =
                   Resp(200, [ok |-> TRUE, session_id |-> h.session_id,
                              text |-> assistantText,
                              history_len |-> Len(nextState.history)])]
  /\ UNCHANGED <<redis, DEBUG_TOKEN, httpReqs, httpCalls, initPending, timeVars, wsVars>>

\* app.post("/chat") from the answer of the chat service on
HttpChatFinish(h, reply) ==
  /\ h \in chatPending
  /\ chatPending' = chatPending \ {h}
  /\ IF ~reply.http_ok
       THEN /\ httpResp' = [httpResp EXCEPT ![h.rid] = BadRequest(<<"HTTP error calling n8n">>)]
            /\ UNCHANGED store
     ELSE IF Falsy(reply.text)
       THEN /\ httpResp' = [httpResp EXCEPT ![h.rid] = BadRequest(<<"n8n chat missing text">>)]
            /\ UNCHANGED store
     ELSE LET assistantText == Trim(reply.text.str)
              nextState == [h.state EXCEPT
                              !.history = nextHistory(h.history, assistantText),
                              !.updated_at = clock]
          IN /\ store' = redisSet(sessionKey(h.session_id), JSONstringify(nextState),
                                  SESSION_TTL_SECONDS)
             /\ httpResp' = [httpResp EXCEPT ![h.rid] =
                   Resp(200, [ok |-> TRUE, session_id |-> h.session_id,
                              text |-> assistantText,
                              history_len |-> Len(nextState.history)])]
  /\ UNCHANGED <<redis, DEBUG_TOKEN, httpReqs, httpCalls, initPending, timeVars, wsVars>>

(* ------------------------------- time --------------------------------- *)

\* JSON null
Null == [typ |-> "null", num |-> 0, str |-> <<>>]

\* redis.ttl(key): the seconds the key has to live, -2 when there is no key
redisTtl(key) == IF key \in DOMAIN store THEN store[key].ttl ELSE -2

\* the debug read that also renews the key it reads
HttpDebug_Touch(id, query_token) ==
  LET key == sessionKey(id)
      exists == key \in DOMAIN store
  IN /\ httpReqs' = Append(httpReqs,
           [route |-> "/debug/session/:id", id |-> id, token |-> query_token])
     /\ httpResp' = Append(httpResp,
           Resp(200, [ok |-> TRUE, exists |-> exists, ttl_seconds |-> redisTtl(key),
                      state |-> IF exists THEN JSONparse(store[key].value) ELSE Null]))
     /\ store' = IF exists THEN redisSet(key, store[key].value, SESSION_TTL_SECONDS)
                           ELSE store
     /\ UNCHANGED <<redis, DEBUG_TOKEN, httpCalls, initPending, chatPending,
                    timeVars, wsVars>>

\* app.get("/debug/session/:id"); query_token is req.query.token. The get
\* and the ttl of the key are read in one step, as the store answers at once.
HttpDebug(id, query_token) ==
  LET token == StringOf(Coalesce(query_token, JStr(EMPTY)))
      key == sessionKey(id)
      exists == key \in DOMAIN store
  IN /\ httpReqs' = Append(httpReqs,
           [route |-> "/debug/session/:id", id |-> id, token |-> query_token])
     /\ httpResp' = Append(httpResp,
           IF ~redis
             THEN Resp(500, [ok |-> FALSE, error |-> <<"Redis not available">>])
           ELSE IF DEBUG_TOKEN # <<>> /\ token # DEBUG_TOKEN
             THEN Resp(403, [ok |-> FALSE, error |-> <<"forbidden">>])
           ELSE Resp(200, [ok |-> TRUE, exists |-> exists,
                           ttl_seconds |-> redisTtl(key),
                           state |-> IF exists THEN JSONparse(store[key].value)
                                               ELSE Null]))
     /\ UNCHANGED <<redis, DEBUG_TOKEN, store, httpCalls, initPending, chatPending,
                    timeVars, wsVars>>

\* redis.set("test:ping", "ok", "EX", 5)
HEALTH_PING_TTL == 5

\* app.get("/health")
HttpHealth ==
  /\ httpReqs' = Append(httpReqs, [route |-> "/health"])
  /\ httpResp' = Append(httpResp,
        Resp(200, [ok |-> TRUE, redis |-> IF redis THEN "available" ELSE "disabled",
                   ttl_seconds |-> SESSION_TTL_SECONDS]))
  /\ store' = IF redis THEN redisSet(<<"test:ping">>, <<"ok">>, HEALTH_PING_TTL)
                       ELSE store
  /\ UNCHANGED <<redis, DEBUG_TOKEN, httpCalls, initPending, chatPending,
                 timeVars, wsVars>>

\* d seconds pass: the store counts every key down and drops the expired
Tick(d) ==
  /\ ticks < MaxTicks
  /\ ticks' = ticks + 1
  /\ clock' = clock + d
  /\ store' = [k \in {x \in DOMAIN store : store[x].ttl > d} |->
                 [store[k] EXCEPT !.ttl = @ - d]]
  /\ UNCHANGED <<redis, DEBUG_TOKEN, httpReqs, httpResp, httpCalls, initPending,
               chatPending, wsVars>>

(* --------------------------- specifications --------------------------- *)

TimeInit == clock = 0 /\ ticks = 0

\* the WebSocket server, one connection
Init == TimeInit /\ WsInit /\ HttpInit /\ redis = TRUE /\ DEBUG_TOKEN = EMPTY

Next ==
  \/ \E raw \in Frames : WsOnMessage(raw)
  \/ \E h \in wsPending : WsResume(h)
  \/ Tick(1)

Spec == Init /\ [][Next]_vars

\* the WebSocket server, one connection carrying two sessions: each session
\* is started and takes turns, the first one is also pinged and started
\* without a language, and some frames are refused
PairFrames ==
  {Garbage} \cup
  {Frame(p) : p \in {StartP(S1, ES, W1), StartP(S2, EN, W2), UserP(S1, HI),
                     UserP(S2, HI), PingP(S1), StartP(S1, EMPTY, W1),
                     [PingP(S1) EXCEPT !.sessionId = Undefined],
                     [PingP(S2) EXCEPT !.v = JNum(2)]}}

NextPair ==
  \/ Len(wsIn) < MaxPairMsgs /\ \E raw \in PairFrames : WsHandle(raw)
  \/ \E h \in wsPending : WsResume(h)

SpecPair == Init /\ [][NextPair]_vars

\* the HTTP runtime, requests overlapping freely
InitHttp ==
  TimeInit /\ WsInit /\ HttpInit /\ redis \in BOOLEAN /\ DEBUG_TOKEN = EMPTY

NextHttp ==
  \/ Len(httpReqs) < MaxReqs /\ \E body \in InitBodies : HttpInitBegin(body)
  \/ Len(httpReqs) < MaxReqs /\ \E body \in ChatBodies : HttpChatBegin(body)
  \/ \E h \in initPending, reply \in CtxReplies : HttpInitFinish(h, reply)
  \/ \E h \in chatPending, reply \in ChatReplies : HttpChatFinish(h, reply)
  \/ \E d \in {1, SESSION_TTL_SECONDS} : Tick(d)

SpecHttp == InitHttp /\ [][NextHttp]_vars

\* the HTTP runtime with its debug and health routes, one session, the
\* store configured: the secret is unset or set, and a debug request comes without a token, with
\* the secret or with another token
KEY == <<"k">>
WRONG == <<"x">>
DebugTokens == {Undefined, JStr(KEY), JStr(WRONG)}

InitOps ==
  TimeInit /\ WsInit /\ HttpInit /\ redis = TRUE /\ DEBUG_TOKEN \in {EMPTY, KEY}

NextOps ==
  \/ /\ Len(httpReqs) < MaxOps
     /\ HttpInitBegin(InitB(JStr(S1), JStr(W1), JStr(Y20), Undefined))
  \/ /\ Len(httpReqs) < MaxOps
     /\ \E text \in {HI, BLANK} : HttpChatBegin(ChatB(JStr(S1), JStr(text)))
  \/ \E h \in initPending, reply \in CtxReplies : HttpInitFinish(h, reply)
  \/ \E h \in chatPending, reply \in ChatReplies : HttpChatFinish(h, reply)
  \/ Len(httpReqs) < MaxOps /\ \E token \in DebugTokens : HttpDebug(S1, token)
  \/ Len(httpReqs) < MaxOps /\ HttpHealth
  \/ \E d \in {1, SESSION_TTL_SECONDS} : Tick(d)

SpecOps == InitOps /\ [][NextOps]_vars

\* the HTTP runtime, one client driving one session turn after turn: the
\* n-th request carries the text "t<n>", and the services fail only while
\* the requests are few
TurnText(n) == <<"t">> \o Decimal(n)
Idle == initPending = {} /\ chatPending = {}
Early == Len(httpReqs) <= MaxReqs

InitTurns == TimeInit /\ WsInit /\ HttpInit /\ redis = TRUE /\ DEBUG_TOKEN = EMPTY

NextTurns ==
  \/ /\ Idle /\ Len(httpReqs) < MaxTurns
     /\ httpReqs = <<>> \/ Early
     /\ HttpInitBegin(InitB(JStr(S1), JStr(W1), JStr(Y20), Undefined))
  \/ /\ Idle /\ Len(httpReqs) < MaxTurns
     /\ HttpChatBegin(ChatB(JStr(S1), JStr(TurnText(Len(httpReqs) + 1))))
  \/ \E h \in initPending, reply \in CtxReplies :
        (reply = "context" \/ Early) /\ HttpInitFinish(h, reply)
  \/ \E h \in chatPending, reply \in ChatReplies :
        (reply.text = JStr(<<" ">> \o OK_TEXT) \/ Early) /\ HttpChatFinish(h, reply)

SpecTurns == InitTurns /\ [][NextTurns]_vars

\* the HTTP runtime, one session filled turn after turn until its history
\* is full, and then taking requests that overlap and fail freely: the first
\* MaxSolo requests come one at a time and are answered
Solo == Len(httpReqs) < MaxSolo

NextRace ==
  \/ /\ httpReqs = <<>> \/ ~Solo
     /\ Len(httpReqs) < MaxRace
     /\ HttpInitBegin(InitB(JStr(S1), JStr(W1), JStr(Y20), Undefined))
  \/ /\ Solo => Idle
     /\ Len(httpReqs) < MaxRace
     /\ HttpChatBegin(ChatB(JStr(S1), JStr(TurnText(Len(httpReqs) + 1))))
  \/ \E h \in initPending, reply \in CtxReplies :
        (reply = "context" \/ h.rid > MaxSolo) /\ HttpInitFinish(h, reply)
  \/ \E h \in chatPending, reply \in ChatReplies :
        (reply.text = JStr(<<" ">> \o OK_TEXT) \/ h.rid > MaxSolo)
        /\ HttpChatFinish(h, reply)

SpecRace == InitTurns /\ [][NextRace]_vars

(* ------------------- vocabulary of the properties --------------------- *)

\* a frame the protocol calls well formed, by what the client put in it
IsMsgOf(raw, type) ==
  /\ raw.parses
  /\ raw.value.kind = "object"
  /\ raw.value.v = JNum(1)
  /\ raw.value.type = JStr(type)
  /\ raw.value.sessionId.typ = "string"
IsPingFrame(raw) == IsMsgOf(raw, PING)
IsStartFrame(raw) ==
  /\ IsMsgOf(raw, SESSION_START)
  /\ raw.value.lang.typ = "string"
  /\ raw.value.vino_id.typ = "string"
IsUserFrame(raw) == IsMsgOf(raw, USER_MESSAGE) /\ raw.value.text.typ = "string"
IsValidFrame(raw) == IsPingFrame(raw) \/ IsStartFrame(raw) \/ IsUserFrame(raw)
SidOf(raw) == raw.value.sessionId.str

\* what the handler of the n-th inbound message did, in order
EventsOf(n) == LET ofN(e) == e.cause = n IN SelectSeq(wsTrace, ofN)
KindOfEvent(e) == IF e.ev = "call" THEN "call" ELSE e.msg.type
KindsOf(n) ==
  LET events == EventsOf(n) IN [i \in 1..Len(events) |-> KindOfEvent(events[i])]
IsErrorEvent(e, code) ==
  e.ev = "send" /\ e.msg.type = "error" /\ e.msg.code = code
WsDone(n) == \A h \in wsPending : h.cause # n

\* the session.start messages for sid received before the n-th message
StartsBefore(sid, n) ==
  {m \in 1..(n - 1) : IsStartFrame(wsIn[m]) /\ SidOf(wsIn[m]) = sid}
LastOf(S) == CHOOSE m \in S : \A k \in S : k <= m
\* the latest session.start before the n-th message bound a language and a wine
BoundBefore(sid, n) ==
  /\ StartsBefore(sid, n) # {}
  /\ LET start == wsIn[LastOf(StartsBefore(sid, n))].value
     IN start.lang.str # <<>> /\ start.vino_id.str # <<>>

(* ------------------------------ properties ---------------------------- *)

\* C9: every inbound payload that is not valid JSON, not an object, without
\* protocol version 1, without a string type, without a string sessionId, or
\* of a type other than ping, session.start, user.message is answered with
\* exactly one error of code INVALID_MESSAGE, and its handler does nothing else.
Malformed(raw) ==
  \/ ~raw.parses
  \/ raw.value.kind # "object"
  \/ raw.value.v # JNum(1)
  \/ raw.value.type.typ # "string"
  \/ raw.value.sessionId.typ # "string"
  \/ raw.value.type.str \notin {PING, SESSION_START, USER_MESSAGE}
C9_MalformedGetsOneInvalidMessage ==
  \A n \in 1..Len(wsIn) :
    Malformed(wsIn[n]) =>
      /\ Len(EventsOf(n)) = 1
      /\ IsErrorEvent(EventsOf(n)[1], "INVALID_MESSAGE")
C9_Witness ==
  \E n \in 1..Len(wsIn), m \in 1..Len(wsIn) :
    /\ ~wsIn[n].parses
    /\ wsIn[m].parses /\ wsIn[m].value.type = JStr(BYE)
    /\ Len(EventsOf(n)) = 1 /\ Len(EventsOf(m)) = 1

OutKindsOf(n) ==
  LET sentOfN(e) == e.cause = n /\ e.ev = "send"
      out == SelectSeq(wsTrace, sentOfN)
  IN [i \in 1..Len(out) |-> out[i].msg.type]

\* C1: a user.message for a session id that has received no session.start is
\* answered with exactly one error of code SESSION_NOT_READY, without a
\* generation call, and leaves no session record for an id not seen before.
C1_UninitializedTurnLeavesNoRecord ==
  \A n \in 1..Len(wsIn) :
    LET sid == SidOf(wsIn[n]) IN
    IsUserFrame(wsIn[n]) /\ StartsBefore(sid, n) = {} =>
      /\ Len(EventsOf(n)) = 1
      /\ IsErrorEvent(EventsOf(n)[1], "SESSION_NOT_READY")
      /\ (\A m \in 1..Len(wsIn) :
            IsValidFrame(wsIn[m]) /\ SidOf(wsIn[m]) = sid => IsUserFrame(wsIn[m]))
         => sid \notin DOMAIN sessions

\* C2: the outbound messages of one connection are grouped by the inbound
\* message that caused them, in the order of arrival: nothing caused by a
\* later message is sent before the last message caused by an earlier one.
C2_HandlingIsSequential ==
  \A i \in 1..Len(wsTrace), j \in 1..Len(wsTrace) :
    i < j /\ wsTrace[i].ev = "send" /\ wsTrace[j].ev = "send"
      => wsTrace[i].cause <= wsTrace[j].cause

\* C7 as stated: an accepted user.message of a started session produces the
\* outbound sequence assistant.thinking, assistant.message and nothing else.
C7_OutboundIsThinkingThenMessage ==
  \A n \in 1..Len(wsIn) :
    IsUserFrame(wsIn[n]) /\ BoundBefore(SidOf(wsIn[n]), n) /\ WsDone(n)
      => OutKindsOf(n) = <<"assistant.thinking", "assistant.message">>

\* C7, amended: an accepted user.message of a started session sends
\* assistant.thinking first, then one assistant.chunk, both before the
\* generation call is made, and exactly one assistant.message last, once the
\* call has returned.
C7_ThinkingChunkCallMessage ==
  \A n \in 1..Len(wsIn) :
    IsUserFrame(wsIn[n]) /\ BoundBefore(SidOf(wsIn[n]), n) =>
      KindsOf(n) =
        IF WsDone(n)
          THEN <<"assistant.thinking", "assistant.chunk", "call", "assistant.message">>
          ELSE <<"assistant.thinking", "assistant.chunk", "call">>
C7_Witness ==
  \E n \in 1..Len(wsIn) :
    /\ IsUserFrame(wsIn[n]) /\ BoundBefore(SidOf(wsIn[n]), n) /\ WsDone(n)
    /\ Len(EventsOf(n)) = 4
    /\ EventsOf(n)[4].msg.type = "assistant.message"

\* C8: a user.message of a started session whose text is empty or blank is
\* answered with one error of code INVALID_MESSAGE and is not forwarded: no
\* assistant.thinking, no generation call.
C8_BlankTurnIsRejected ==
  \A n \in 1..Len(wsIn) :
    /\ IsUserFrame(wsIn[n])
    /\ BoundBefore(SidOf(wsIn[n]), n)
    /\ Trim(wsIn[n].value.text.str) = <<>>
    => /\ Len(EventsOf(n)) = 1
       /\ IsErrorEvent(EventsOf(n)[1], "INVALID_MESSAGE")

\* C10: a ping is answered with exactly one pong in every phase, creates no
\* session record, and leaves language and wine as the latest session.start
\* bound them.
C10_PingOnlyTouchesLastSeen ==
  /\ \A n \in 1..Len(wsIn) : IsPingFrame(wsIn[n]) => KindsOf(n) = <<"pong">>
  /\ \A sid \in SessionIds :
       (\A m \in 1..Len(wsIn) :
          IsValidFrame(wsIn[m]) /\ SidOf(wsIn[m]) = sid => IsPingFrame(wsIn[m]))
       => sid \notin DOMAIN sessions
  /\ \A sid \in DOMAIN sessions :
       LET starts == StartsBefore(sid, Len(wsIn) + 1) IN
       /\ sessions[sid].lang =
            IF starts = {} THEN Undefined ELSE wsIn[LastOf(starts)].value.lang
       /\ sessions[sid].vino_id =
            IF starts = {} THEN Undefined ELSE wsIn[LastOf(starts)].value.vino_id

\* the history persisted for a session id
StoredHistory(st, sid) == JSONparse(st[sessionKey(sid)].value).history
HasRecord(st, sid) == sessionKey(sid) \in DOMAIN st

\* C3: at most one generation call is in flight per session id.
C3_OneCallInFlightPerSession ==
  \A h1 \in chatPending, h2 \in chatPending :
    h1.session_id = h2.session_id => h1 = h2

\* C4: when the chat service answers with empty or missing text for a turn
\* on an existing session, the history persisted afterwards is the previous
\* one with the user's turn appended, and the client gets UPSTREAM_ERROR.
C4_FailedTurnKeepsUserTurn ==
  [][\A h \in chatPending, reply \in ChatReplies :
       /\ reply.http_ok /\ Falsy(reply.text)
       /\ HasRecord(store, h.session_id)
       /\ HttpChatFinish(h, reply)
       => /\ HasRecord(store', h.session_id)
          /\ StoredHistory(store', h.session_id) =
               Append(StoredHistory(store, h.session_id), h.history[Len(h.history)])
          /\ httpResp'[h.rid].body.error = <<"UPSTREAM_ERROR">>]_vars

\* C5: a session init for a session id whose record has a non-empty history
\* leaves that history as it was.
C5_RestartKeepsHistory ==
  [][\A h \in initPending :
       /\ HasRecord(store, h.session_id)
       /\ StoredHistory(store, h.session_id) # <<>>
       /\ HttpInitFinish(h, "context")
       => StoredHistory(store', h.session_id) = StoredHistory(store, h.session_id)]_vars

\* what the client of session sid saw since the session was last initialised:
\* for each answered turn, the text it sent and the text it got back
SidOfReq(i) == Trim(httpReqs[i].body.session_id.str)
OkInit(i, sid) ==
  /\ httpReqs[i].route = "/session/init"
  /\ httpResp[i].status = 200
  /\ SidOfReq(i) = sid
OkChat(i, sid) ==
  /\ httpReqs[i].route = "/chat"
  /\ httpResp[i].status = 200
  /\ SidOfReq(i) = sid
RECURSIVE TranscriptFrom(_, _)
TranscriptFrom(i, sid) ==
  IF i > Len(httpReqs) THEN <<>>
  ELSE IF OkInit(i, sid) THEN TranscriptFrom(i + 1, sid)
  ELSE IF OkChat(i, sid) /\ \A k \in (i + 1)..Len(httpReqs) : ~OkInit(k, sid)
    THEN << [role |-> "user", text |-> Trim(httpReqs[i].body.userText.str)],
            [role |-> "assistant", text |-> httpResp[i].body.text] >>
           \o TranscriptFrom(i + 1, sid)
  ELSE TranscriptFrom(i + 1, sid)
Transcript(sid) == TranscriptFrom(1, sid)
Plain(item) == [role |-> item.role, text |-> item.text]

\* C6: with one client driving the session turn after turn, the persisted
\* history is the last 30 entries of the transcript of user and assistant
\* entries since the session was initialised: both entries of a turn in
\* order, never more than 30, the oldest dropped first.
C6_HistoryIsLast30OfTranscript ==
  \A sid \in SessionIds :
    HasRecord(store, sid) =>
      LET h == StoredHistory(store, sid)
          t == Transcript(sid)
      IN /\ Len(h) = IF Len(t) <= 30 THEN Len(t) ELSE 30
         /\ \A k \in 1..Len(h) : Plain(h[k]) = t[Len(t) - Len(h) + k]
\* 31 answered turns in a row: 62 entries seen, 30 kept, the first kept one
\* being the assistant entry of the 16th turn
C6_Witness ==
  /\ HasRecord(store, S1)
  /\ Len(Transcript(S1)) = 62
  /\ Len(StoredHistory(store, S1)) = 30
  /\ Plain(StoredHistory(store, S1)[1]) = Transcript(S1)[33]

\* an inbound message the server rejects: one the validator refuses, or a
\* user.message for a session whose latest session.start bound no language
\* and wine (or that had none)
Rejected(n) ==
  \/ ~IsValidFrame(wsIn[n])
  \/ IsUserFrame(wsIn[n]) /\ ~BoundBefore(SidOf(wsIn[n]), n)
IsError(e) == e.ev = "send" /\ e.msg.type = "error"
\* the answer the protocol gives to a message it accepts
AnsweredAsAccepted(n) ==
  IF IsPingFrame(wsIn[n]) THEN KindsOf(n) = <<"pong">>
  ELSE IF IsStartFrame(wsIn[n]) THEN KindsOf(n) = <<"session.ready">>
  ELSE KindsOf(n) =
         IF WsDone(n)
           THEN <<"assistant.thinking", "assistant.chunk", "call", "assistant.message">>
           ELSE <<"assistant.thinking", "assistant.chunk", "call">>
StableCodes == {"INVALID_MESSAGE", "SESSION_NOT_READY", "UPSTREAM_ERROR", "FORBIDDEN"}

ReadyBefore(sid, n) ==
  \E m \in StartsBefore(sid, n) : KindsOf(m) = <<"session.ready">>
C12_StartedSessionAcceptsTurns ==
  \A n \in 1..Len(wsIn) :
    IsUserFrame(wsIn[n]) /\ ReadyBefore(SidOf(wsIn[n]), n) =>
      /\ KindsOf(n)[1] = "assistant.thinking"
      /\ \A i \in 1..Len(EventsOf(n)) : ~IsErrorEvent(EventsOf(n)[i], "SESSION_NOT_READY")

\* C14: every generation call of a user.message is made with the language
\* and the wine of the latest session.start received for its session id
\* before it, and the assistant.message that ends the turn carries the reply
\* made from them; every session.ready carries the capabilities text: true,
\* audio: false, streaming: true.
LatestStart(sid, n) == wsIn[LastOf(StartsBefore(sid, n))].value
C14_LatestStartWins ==
  /\ \A i \in 1..Len(wsTrace) :
       LET e == wsTrace[i]
           n == e.cause
           sid == SidOf(wsIn[n])
       IN /\ e.ev = "call" =>
               /\ StartsBefore(sid, n) # {}
               /\ e.lang = LatestStart(sid, n).lang.str
               /\ e.vino_id = LatestStart(sid, n).vino_id.str
          /\ e.ev = "send" /\ e.msg.type = "assistant.message" =>
               e.msg.text =
                 IF StartsWith(LatestStart(sid, n).lang.str, <<"e", "s">>)
                   THEN <<"Para ">> \o LatestStart(sid, n).vino_id.str \o <<": marida muy bien">>
                   ELSE <<"For ">> \o LatestStart(sid, n).vino_id.str \o <<": pairs well">>
          /\ e.ev = "send" /\ e.msg.type = "session.ready" =>
               e.msg.capabilities = [text |-> TRUE, audio |-> FALSE, streaming |-> TRUE]
\* Spanish then English for one session, and the turn after them answered in
\* English about the second wine
C14_Witness ==
  /\ Len(wsIn) = 3
  /\ wsIn[1] = Frame(StartP(S1, ES, W1))
  /\ wsIn[2] = Frame(StartP(S1, EN, W2))
  /\ IsUserFrame(wsIn[3]) /\ SidOf(wsIn[3]) = S1
  /\ \E i \in 1..Len(wsTrace) :
       /\ wsTrace[i].ev = "send" /\ wsTrace[i].cause = 3
       /\ wsTrace[i].msg.type = "assistant.message"
       /\ wsTrace[i].msg.text = <<"For ">> \o W2 \o <<": pairs well">>

\* C18: the handling of an inbound message that fails validation leaves the
\* session table as it was: no record is created, and no record's
\* lastSeenAt, lang or vino_id changes, also when the message carries the
\* sessionId of an existing record.
C18_InvalidMessageLeavesTable ==
  [][\A raw \in Frames :
       ~IsValidFrame(raw) /\ WsOnMessage(raw) => sessions' = sessions]_vars
\* an invalid message that names the session s1 arrives after the clock has
\* moved on from the last time the record of s1 was touched
C18_Witness ==
  /\ Len(wsIn) >= 2
  /\ LET raw == wsIn[Len(wsIn)] IN
       /\ ~IsValidFrame(raw)
       /\ raw.parses /\ raw.value.kind = "object"
       /\ raw.value.sessionId = JStr(S1)
       /\ IsErrorEvent(EventsOf(Len(wsIn))[1], "INVALID_MESSAGE")
       /\ EventsOf(Len(wsIn))[1].ts = clock
  /\ S1 \in DOMAIN sessions
  /\ sessions[S1].lastSeenAt < clock
  /\ sessions[S1].lang = JStr(ES)

\* C19: every outbound message carries the sessionId of the inbound message
\* it answers when that message is an object with a string sessionId, and
\* "unknown" otherwise; an assistant.message carries the reply made from the
\* language and the wine bound to its own session, also when turns of two
\* sessions overlap.
EchoedSid(raw) ==
  IF raw.parses /\ raw.value.kind = "object" /\ raw.value.sessionId.typ = "string"
    THEN raw.value.sessionId.str
    ELSE <<"u", "n", "k", "n", "o", "w", "n">>
ReplyFor(start) ==
  IF StartsWith(start.lang.str, <<"e", "s">>)
    THEN <<"Para ">> \o start.vino_id.str \o <<": marida muy bien">>
    ELSE <<"For ">> \o start.vino_id.str \o <<": pairs well">>
C19_AnswersCarryOwnSession ==
  \A i \in 1..Len(wsTrace) :
    LET e == wsTrace[i]
        raw == wsIn[e.cause]
    IN e.ev = "send" =>
         /\ e.msg.sessionId = EchoedSid(raw)
         /\ e.msg.type = "assistant.message" =>
              e.msg.text = ReplyFor(LatestStart(EchoedSid(raw), e.cause))
\* the turns of s1 and s2 overlap: both calls are made before either reply
\* is sent, and the reply of s2 is sent first
C19_Witness ==
  \E i, j, k, l \in 1..Len(wsTrace) :
    /\ i < j /\ j < k /\ k < l
    /\ wsTrace[i].ev = "call" /\ SidOf(wsIn[wsTrace[i].cause]) = S1
    /\ wsTrace[j].ev = "call" /\ SidOf(wsIn[wsTrace[j].cause]) = S2
    /\ wsTrace[k].ev = "send" /\ wsTrace[k].msg.type = "assistant.message"
    /\ wsTrace[k].cause = wsTrace[j].cause
    /\ wsTrace[k].msg.text = <<"For ">> \o W2 \o <<": pairs well">>
    /\ wsTrace[l].ev = "send" /\ wsTrace[l].msg.type = "assistant.message"
    /\ wsTrace[l].cause = wsTrace[i].cause
    /\ wsTrace[l].msg.text = <<"Para ">> \o W1 \o <<": marida muy bien">>

\* C13: for every configuration of the secret, a debug request whose token
\* is not the configured secret is answered 403 forbidden, so it gets neither
\* the serialized state nor the TTL of a session.
IsDebugReq(i) == httpReqs[i].route = "/debug/session/:id"
\* the token of the request, "" when the query has none
TokenOf(i) ==
  IF httpReqs[i].token.typ = "string" THEN httpReqs[i].token.str ELSE <<>>
C13_DebugNeedsTheSecret ==
  \A i \in 1..Len(httpReqs) :
    IsDebugReq(i) /\ TokenOf(i) # DEBUG_TOKEN =>
      httpResp[i] = Resp(403, [ok |-> FALSE, error |-> <<"forbidden">>])

\* C15: a session record is written with the full TTL by every successful
\* session init and every successful chat turn; any other step (failed or
\* rejected request, debug read, health check) leaves its time to live
\* counting down with the clock, and the record is gone once the TTL has
\* passed; a chat turn that finds no record is answered 404 'session not
\* found' without a call of the chat service and without a write.
TtlOf(st, sid) == st[sessionKey(sid)].ttl
Answered200(i, sid) == OkInit(i, sid) \/ OkChat(i, sid)
Renewed(sid) ==
  \E i \in 1..Len(httpResp') :
    /\ Answered200(i, sid)'
    /\ i > Len(httpResp) \/ httpResp[i].status = 0
ChatArrives(sid) ==
  /\ Len(httpReqs') = Len(httpReqs) + 1
  /\ LET req == httpReqs'[Len(httpReqs')] IN
       /\ req.route = "/chat"
       /\ Trim(req.body.session_id.str) = sid
       /\ Trim(req.body.userText.str) # <<>>
C15_OnlyActivityRenews ==
  [][\A sid \in SessionIds :
       /\ Renewed(sid) =>
            HasRecord(store', sid) /\ TtlOf(store', sid) = 1800
       /\ ~Renewed(sid) /\ HasRecord(store', sid) =>
            /\ HasRecord(store, sid)
            /\ TtlOf(store', sid) = TtlOf(store, sid) - (clock' - clock)
       /\ ~Renewed(sid) /\ HasRecord(store, sid)
            /\ clock' - clock >= TtlOf(store, sid) => ~HasRecord(store', sid)
       /\ ChatArrives(sid) /\ ~HasRecord(store, sid) =>
            /\ httpResp'[Len(httpReqs')] =
                 Resp(404, [ok |-> FALSE, error |-> <<"session not found">>])
            /\ httpCalls' = httpCalls
            /\ store' = store]_vars
\* the session is created and read through the debug route, the TTL passes,
\* and the next turn finds nothing
C15_Witness ==
  /\ Len(httpReqs) = 3
  /\ OkInit(1, S1)
  /\ IsDebugReq(2) /\ httpResp[2].status = 200
  /\ httpResp[2].body.exists /\ httpResp[2].body.ttl_seconds = 1800
  /\ httpReqs[3].route = "/chat" /\ httpResp[3].status = 404
  /\ clock = 1800
  /\ ~HasRecord(store, S1)
  /\ httpCalls = <<>>

\* C16: a write of the history replaces the record with what one request
\* read and appended, so the persisted history is always empty or the
\* history one answered chat request sent to the chat service followed by
\* the reply it got, whatever other requests wrote meanwhile; two chat
\* requests racing on one session are both answered and one's entries are
\* lost.
PlainSeq(h) == [k \in 1..Len(h) |-> Plain(h[k])]
WrittenBy(call) ==
  LET all == Append(PlainSeq(call.history),
                    [role |-> "assistant", text |-> httpResp[call.rid].body.text])
  IN IF Len(all) <= 30 THEN all ELSE SubSeq(all, Len(all) - 29, Len(all))
C16_LastWriterWins ==
  \A sid \in SessionIds :
    HasRecord(store, sid) /\ StoredHistory(store, sid) # <<>> =>
      \E n \in 1..Len(httpCalls) :
        /\ httpCalls[n].session_id = sid
        /\ httpResp[httpCalls[n].rid].status = 200
        /\ PlainSeq(StoredHistory(store, sid)) = WrittenBy(httpCalls[n])
\* both turns read the empty history, both were answered, one pair is stored
C16_Witness ==
  /\ Len(httpReqs) = 3
  /\ OkInit(1, S1) /\ OkChat(2, S1) /\ OkChat(3, S1)
  /\ Len(httpCalls) = 2
  /\ Len(httpCalls[1].history) = 1 /\ Len(httpCalls[2].history) = 1
  /\ HasRecord(store, S1)
  /\ Len(StoredHistory(store, S1)) = 2
  /\ Len(Transcript(S1)) = 4

\* C17: every persisted history has an even length of at most 30 and
\* alternates user, assistant, user, assistant, ... from a user entry on:
\* no user entry is stored without its reply, and the cut to 30 entries
\* keeps whole pairs, also when chat requests overlap or fail.
C17_HistoryIsPairs ==
  \A sid \in SessionIds :
    HasRecord(store, sid) =>
      LET h == StoredHistory(store, sid) IN
      /\ Len(h) % 2 = 0
      /\ Len(h) <= 30
      /\ \A k \in 1..Len(h) :
           h[k].role = IF k % 2 = 1 THEN "user" ELSE "assistant"
\* two overlapping turns both read a full history and were answered, a third
\* one failed, and the stored history was cut to 30 entries
C17_Witness ==
  /\ HasRecord(store, S1)
  /\ Len(StoredHistory(store, S1)) = 30
  /\ StoredHistory(store, S1)[1].role = "user"
  /\ \E a, b \in 1..Len(httpCalls) :
       /\ a < b
       /\ Len(httpCalls[a].history) = 31 /\ Len(httpCalls[b].history) = 31
       /\ httpCalls[a].history[1] = httpCalls[b].history[1]
       /\ httpResp[httpCalls[a].rid].status = 200
       /\ httpResp[httpCalls[b].rid].status = 200
  /\ \E i \in 1..Len(httpReqs) :
       httpReqs[i].route = "/chat" /\ httpResp[i].status = 400

====
